---- MODULE Spec2Model ----
(***************************************************************************)
(* Model of the e-commerce REST backend: the product routes                *)
(* (server/Routes/ProductRoutes.js) and the user and order routes          *)
(* (server/Routes/UserRoutes.js).  Every route handler is one action; the  *)
(* four document collections are the state.  Every step records in `last`  *)
(* the request it handled and the response it gave, so that properties can *)
(* speak about what a caller observes.                                     *)
(***************************************************************************)
EXTENDS Integers, Sequences, FiniteSets, TLC

VARIABLES
  products,   \* Product collection: product id -> document
  users,      \* User collection: user id -> document
  orders,     \* Order collection: order id -> document
  last,       \* the last step: the request handled and its response, or a clock tick
  inflight,   \* review-add requests between their findById and their save
  now,        \* the clock read by Date.now()
  notifications  \* Notification collection: notification id -> document

vars == <<products, users, orders, last, inflight, now, notifications>>

----------------------------------------------------------------------------
(* Bounds of the model *)

MaxReviewRating == 2      \* review ratings are drawn from 1..MaxReviewRating
MaxQty == 2               \* cart quantities in a request are drawn from 1..MaxQty
MaxTime == 1              \* the clock runs from 0 to MaxTime

PIds == {1, 2}            \* ids the store hands to products, in creation order
UIds == {1, 2, 3}         \* ids the store hands to users, in creation order
OIds == {1, 2}            \* ids the store hands to orders, in creation order

NoToken == 0              \* a missing, malformed or expired bearer token
Tokens == UIds \cup {NoToken}

UndefNum == -1            \* a numeric body field that is absent (undefined)
UndefStr == "<undefined>" \* a string body field that is absent (undefined)

Names == {"n1", "n2"}
Emails == {"a@x.com", "b@x.com", "c@x.com"}
Passwords == {"p", "q"}
Ratings == 1..MaxReviewRating

----------------------------------------------------------------------------
(* JavaScript truthiness of body fields, as used by `x || y`. *)

FalsyNum(v) == v = UndefNum \/ v = 0
FalsyStr(s) == s = UndefStr \/ s = ""
OrNumOverwrite(v, old) == IF v = UndefNum THEN old ELSE v
OrNum(v, old) == IF FalsyNum(v) THEN old ELSE v
OrStr(s, old) == IF FalsyStr(s) THEN old ELSE s

RECURSIVE GCD(_, _)
GCD(a, b) == IF b = 0 THEN a ELSE GCD(b, a % b)

\* The quotient a / b of two JavaScript numbers, kept exact as a reduced
\* fraction (b > 0, a >= 0).
Quot(a, b) == LET g == GCD(a, b) IN [num |-> a \div g, den |-> b \div g]

RECURSIVE SumRatings(_)
SumRatings(rs) == IF rs = <<>> THEN 0 ELSE Head(rs).rating + SumRatings(Tail(rs))

----------------------------------------------------------------------------
(* Documents *)

\* A slot of a collection is "none" (id not handed out yet), "live", or
\* "gone" (document removed; the store never hands the id out again).
BlankProduct ==
  [state |-> "none", name |-> "", price |-> 0, description |-> "", image |-> "",
   countInStock |-> 0, rating |-> [num |-> 0, den |-> 1], numReviews |-> 0,
   reviews |-> <<>>]

BlankUser ==
  [state |-> "none", name |-> "", email |-> "", password |-> "", isAdmin |-> FALSE,
   passwordResetToken |-> "", passwordResetExpires |-> 0,
   emailResetToken |-> "", emailResetExpires |-> 0,
   cart |-> <<>>, notifications |-> <<>>, favorites |-> <<>>]

Live(coll) == {i \in DOMAIN coll : coll[i].state = "live"}
Fresh(coll) == {i \in DOMAIN coll : coll[i].state = "none"}
\* The id the store gives the next document created in the collection.
NextId(coll) == CHOOSE i \in Fresh(coll) : \A j \in Fresh(coll) : i <= j

----------------------------------------------------------------------------
(* Auth gate (Middleware/AuthMiddleware.js) *)

\* protect: the user the bearer token resolves to, or 0 when the token is
\* missing, invalid or expired, or names no stored user.
Protect(tok) == IF tok \in UIds /\ users[tok].state = "live" THEN tok ELSE 0

\* admin: the resolved user's admin flag.
Admin(uid) == uid # 0 /\ users[uid].isAdmin

Respond(op, tok, id, status, msg) ==
  [op |-> op, tok |-> tok, id |-> id, status |-> status, msg |-> msg, token |-> 0,
   email |-> "", product |-> 0, quantity |-> 0]

\* The status the gate answers with before the handler runs; 0 lets it run.
Gate(tok, needAdmin) ==
  IF Protect(tok) = 0 THEN 401
  ELSE IF needAdmin /\ ~Admin(Protect(tok)) THEN 403
  ELSE 0

GateMsg(status) == IF status = 401 THEN "Not authorized" ELSE "Not authorized as an Admin"

----------------------------------------------------------------------------
(* Product routes *)

\* r.user.toString() === req.user._id.toString() for some review r
AlreadyReviewedNever(product, uid) == FALSE
AlreadyReviewed(product, uid) ==
  \E i \in 1..Len(product.reviews) : product.reviews[i].user = uid

MeanRatingOffByOne(reviews) == Quot(SumRatings(reviews), Len(reviews) + 1)
\* reviews.reduce((acc, item) => item.rating + acc, 0) / reviews.length
MeanRating(reviews) == Quot(SumRatings(reviews), Len(reviews))

\* push the review, then recompute numReviews and rating from the list
WithReview(product, review) ==
  LET rs == Append(product.reviews, review) IN
  [product EXCEPT !.reviews = rs, !.numReviews = Len(rs), !.rating = MeanRating(rs)]

\* POST /:id/review (protect)
ReviewAdd(tok, id, rating) ==
  /\ IF Gate(tok, FALSE) # 0
       THEN /\ last' = Respond("reviewAdd", tok, id, Gate(tok, FALSE), GateMsg(Gate(tok, FALSE)))
            /\ UNCHANGED products
     ELSE IF products[id].state # "live"
       THEN /\ last' = Respond("reviewAdd", tok, id, 404, "Product not Found")
            /\ UNCHANGED products
     ELSE IF AlreadyReviewed(products[id], Protect(tok))
       THEN /\ last' = Respond("reviewAdd", tok, id, 400, "Product already Reviewed")
            /\ UNCHANGED products
     ELSE /\ products' = [products EXCEPT ![id] =
                 WithReview(@, [user |-> Protect(tok), rating |-> rating])]
          /\ last' = Respond("reviewAdd", tok, id, 201, "Reviewed Added")
  /\ UNCHANGED <<users, orders, inflight, now, notifications>>

ProductExistNever(name) == FALSE
\* Product.findOne({ name })
ProductExist(name) == \E i \in Live(products) : products[i].name = name

NewProduct(name, price, description, image, countInStock) ==
  [BlankProduct EXCEPT !.state = "live", !.name = name, !.price = price,
     !.description = description, !.image = image, !.countInStock = countInStock]

\* POST / (protect, admin)
ProductCreateNoAdmin(tok, name, price, description, image, countInStock) ==
  /\ IF Gate(tok, FALSE) # 0
       THEN /\ last' = Respond("productCreate", tok, 0, Gate(tok, FALSE), GateMsg(Gate(tok, FALSE)))
            /\ UNCHANGED products
     ELSE IF ProductExist(name)
       THEN /\ last' = Respond("productCreate", tok, 0, 400, "Product name already exist")
            /\ UNCHANGED products
     ELSE /\ Fresh(products) # {}
          /\ products' = [products EXCEPT ![NextId(products)] =
                 NewProduct(name, price, description, image, countInStock)]
          /\ last' = Respond("productCreate", tok, NextId(products), 201, "")
  /\ UNCHANGED <<users, orders, inflight, now, notifications>>

ProductCreate(tok, name, price, description, image, countInStock) ==
  /\ IF Gate(tok, TRUE) # 0
       THEN /\ last' = Respond("productCreate", tok, 0, Gate(tok, TRUE), GateMsg(Gate(tok, TRUE)))
            /\ UNCHANGED products
     ELSE IF ProductExist(name)
       THEN /\ last' = Respond("productCreate", tok, 0, 400, "Product name already exist")
            /\ UNCHANGED products
     ELSE /\ Fresh(products) # {}
          /\ products' = [products EXCEPT ![NextId(products)] =
                 NewProduct(name, price, description, image, countInStock)]
          /\ last' = Respond("productCreate", tok, NextId(products), 201, "")
  /\ UNCHANGED <<users, orders, inflight, now, notifications>>

\* PUT /:id (protect, admin)
ProductUpdate(tok, id, name, price, description, image, countInStock) ==
  /\ IF Gate(tok, TRUE) # 0
       THEN /\ last' = Respond("productUpdate", tok, id, Gate(tok, TRUE), GateMsg(Gate(tok, TRUE)))
            /\ UNCHANGED products
     ELSE IF products[id].state # "live"
       THEN /\ last' = Respond("productUpdate", tok, id, 404, "Product not found")
            /\ UNCHANGED products
     ELSE /\ products' = [products EXCEPT ![id] =
                 [@ EXCEPT !.name = OrStr(name, @),
                           !.price = OrNum(price, @),
                           !.description = OrStr(description, @),
                           !.image = OrStr(image, @),
                           !.countInStock = OrNum(countInStock, @)]]
          /\ last' = Respond("productUpdate", tok, id, 200, "")
  /\ UNCHANGED <<users, orders, inflight, now, notifications>>

\* DELETE /:id (protect, admin)
ProductDelete(tok, id) ==
  /\ IF Gate(tok, TRUE) # 0
       THEN /\ last' = Respond("productDelete", tok, id, Gate(tok, TRUE), GateMsg(Gate(tok, TRUE)))
            /\ UNCHANGED products
     ELSE IF products[id].state # "live"
       THEN /\ last' = Respond("productDelete", tok, id, 404, "Product not Found")
            /\ UNCHANGED products
     ELSE /\ products' = [products EXCEPT ![id] = [BlankProduct EXCEPT !.state = "gone"]]
          /\ last' = Respond("productDelete", tok, id, 200, "Product deleted")
  /\ UNCHANGED <<users, orders, inflight, now, notifications>>

----------------------------------------------------------------------------
(* Product list *)

NaN == -2                 \* the number a non-numeric string converts to

Digits == <<"0", "1", "2", "3", "4", "5", "6", "7", "8", "9">>
IsDigit(c) == \E d \in 1..10 : Digits[d] = c
DigitVal(c) == (CHOOSE d \in 1..10 : Digits[d] = c) - 1

RECURSIVE ParseDec(_, _)
ParseDec(s, acc) ==
  IF Len(s) = 0 THEN acc ELSE ParseDec(SubSeq(s, 2, Len(s)), 10 * acc + DigitVal(Head(s)))

\* Number(s) of a query-string value: NaN for undefined and for text that is
\* no numeral, 0 for the empty string, the value of a decimal numeral
ToNumber(s) ==
  IF s = UndefStr THEN NaN
  ELSE IF s = "" THEN 0
  ELSE IF \A i \in 1..Len(s) : IsDigit(SubSeq(s, i, i)) THEN ParseDec(s, 0)
  ELSE NaN

\* Number(req.query.pageNumber) || 1
PageOf(pageNumber) ==
  IF ToNumber(pageNumber) = NaN \/ ToNumber(pageNumber) = 0 THEN 1 ELSE ToNumber(pageNumber)

pageSize == 12

Uppers == <<"A", "B", "C">>
Lowers == <<"a", "b", "c">>
LowerChar(c) ==
  IF \E k \in 1..Len(Uppers) : Uppers[k] = c
    THEN Lowers[CHOOSE k \in 1..Len(Uppers) : Uppers[k] = c]
    ELSE c

RECURSIVE ToLower(_)
ToLower(s) == IF Len(s) = 0 THEN "" ELSE LowerChar(SubSeq(s, 1, 1)) \o ToLower(SubSeq(s, 2, Len(s)))

\* { name: { $regex: keyword, $options: "i" } } for a keyword of letters:
\* the name contains the keyword, letter case ignored
RegexI(name, keyword) ==
  \E i \in 1..(Len(name) - Len(keyword) + 1) :
    ToLower(SubSeq(name, i, i + Len(keyword) - 1)) = ToLower(keyword)

\* the filter of the query: every product when the keyword is missing or empty
KeywordFilter(keyword) ==
  {i \in Live(products) : FalsyStr(keyword) \/ RegexI(products[i].name, keyword)}

\* .sort({ _id: -1 }): the ids of S from the newest to the oldest
RECURSIVE DescFrom(_, _)
DescFrom(S, k) ==
  IF k = 0 THEN <<>>
  ELSE (IF k \in S THEN <<k>> ELSE <<>>) \o DescFrom(S, k - 1)

SortDesc(S) == DescFrom(S, Cardinality(DOMAIN products))

PageSkipFromZero(page) == pageSize * page
\* .skip(pageSize * (page - 1))
PageSkip(page) == pageSize * (page - 1)

\* .limit(pageSize).skip(...) applied to the sorted result
SkipLimit(seq, skip, limit) ==
  SubSeq(seq, skip + 1, IF skip + limit < Len(seq) THEN skip + limit ELSE Len(seq))

\* Math.ceil(count / pageSize)
CeilDiv(a, b) == (a + b - 1) \div b

RespondList(pageNumber, keyword, found, page, pages) ==
  [op |-> "productList", tok |-> 0, id |-> 0, status |-> 200, msg |-> "", token |-> 0,
   email |-> "", product |-> 0, quantity |-> 0,
   pageNumber |-> pageNumber, keyword |-> keyword,
   products |-> found, page |-> page, pages |-> pages]

\* GET / (no gate)
ProductList(pageNumber, keyword) ==
  /\ LET page == PageOf(pageNumber)
         count == Cardinality(KeywordFilter(keyword))
         found == SkipLimit(SortDesc(KeywordFilter(keyword)), PageSkip(page), pageSize)
     IN last' = RespondList(pageNumber, keyword, found, page, CeilDiv(count, pageSize))
  /\ UNCHANGED <<products, users, orders, inflight, now, notifications>>

----------------------------------------------------------------------------
(* Review-add as two steps, for requests that overlap: everything up to    *)
(* `await Product.findById` is the first step, the rest (the check on the  *)
(* document read, the push, the recomputation and `await product.save()`)  *)
(* is the second.                                                          *)

RIds == {1, 2}            \* review-add requests that may be in flight together

IdleReq == [pc |-> "idle", tok |-> 0, id |-> 0, rating |-> 0, doc |-> BlankProduct, status |-> 0]

\* What save() writes for a document whose reviews array was changed by
\* push() and whose numReviews and rating were assigned: the ODM sends the
\* changed paths, i.e. an atomic append of the pushed review and a set of
\* the two scalars ("delta"); a store that writes the document back whole
\* replaces all three ("replace").
SaveModes == {"delta", "replace"}

SaveReviewedRecount(stored, doc, review, mode) == WithReview(stored, review)
SaveReviewed(stored, doc, review, mode) ==
  IF mode = "delta"
    THEN [stored EXCEPT !.reviews = Append(@, review),
                        !.numReviews = doc.numReviews, !.rating = doc.rating]
    ELSE [stored EXCEPT !.reviews = doc.reviews,
                        !.numReviews = doc.numReviews, !.rating = doc.rating]

\* protect, then const product = await Product.findById(req.params.id)
ReviewBegin(r, tok, id, rating) ==
  /\ inflight[r].pc = "idle"
  /\ IF Gate(tok, FALSE) # 0
       THEN /\ inflight' = [inflight EXCEPT ![r] =
                  [IdleReq EXCEPT !.pc = "done", !.tok = tok, !.id = id, !.status = 401]]
            /\ last' = Respond("reviewAdd", tok, id, 401, GateMsg(401))
     ELSE IF products[id].state # "live"
       THEN /\ inflight' = [inflight EXCEPT ![r] =
                  [IdleReq EXCEPT !.pc = "done", !.tok = tok, !.id = id, !.status = 404]]
            /\ last' = Respond("reviewAdd", tok, id, 404, "Product not Found")
     ELSE /\ inflight' = [inflight EXCEPT ![r] =
                  [pc |-> "read", tok |-> tok, id |-> id, rating |-> rating,
                   doc |-> products[id], status |-> 0]]
          /\ last' = Respond("reviewRead", tok, id, 0, "")
  /\ UNCHANGED <<products, users, orders, now, notifications>>

\* the rest of the handler, on the document read in ReviewBegin
ReviewFinish(r, mode) ==
  /\ inflight[r].pc = "read"
  /\ LET q == inflight[r]
         review == [user |-> q.tok, rating |-> q.rating]
     IN IF AlreadyReviewed(q.doc, q.tok)
          THEN /\ inflight' = [inflight EXCEPT ![r].pc = "done", ![r].status = 400]
               /\ last' = Respond("reviewAdd", q.tok, q.id, 400, "Product already Reviewed")
               /\ UNCHANGED products
          ELSE /\ products' = [products EXCEPT ![q.id] =
                      SaveReviewed(@, WithReview(q.doc, review), review, mode)]
               /\ inflight' = [inflight EXCEPT ![r].pc = "done", ![r].status = 201]
               /\ last' = Respond("reviewAdd", q.tok, q.id, 201, "Reviewed Added")
  /\ UNCHANGED <<users, orders, now, notifications>>

----------------------------------------------------------------------------
(* User routes *)

\* UserModel: the password is stored hashed, and matchPassword compares the
\* entered password with the stored hash.
Hash(p) == "hash(" \o p \o ")"
MatchPassword(user, entered) == user.password = Hash(entered)

\* User.findOne({ email }) on a collection: the id found, or 0
FindByEmail(coll, email) ==
  IF \E i \in Live(coll) : coll[i].email = email
    THEN CHOOSE i \in Live(coll) : coll[i].email = email
    ELSE 0

\* UserModel: the unique index on email. A write that would leave two users
\* with one email is refused by the store.
EmailUniqueIgnored(coll, uid, email) == TRUE
EmailUnique(coll, uid, email) ==
  \A i \in Live(coll) : i # uid => coll[i].email # email

LoginFailure == [status |-> 401, msg |-> "Invalid Email or Password", uid |-> 0, token |-> 0]

LoginResultLeaky(coll, email, password) ==
  LET u == FindByEmail(coll, email) IN
  IF u = 0 THEN [status |-> 404, msg |-> "User not found", uid |-> 0, token |-> 0]
  ELSE IF MatchPassword(coll[u], password)
    THEN [status |-> 200, msg |-> "", uid |-> u, token |-> u]
  ELSE LoginFailure

\* POST /login: the response, as a function of the collection and the body
LoginResult(coll, email, password) ==
  LET u == FindByEmail(coll, email) IN
  IF u # 0 /\ MatchPassword(coll[u], password)
    THEN [status |-> 200, msg |-> "", uid |-> u, token |-> u]
    ELSE LoginFailure

\* POST /login, registered a second time on the same router
LoginResultDup(coll, email, password) ==
  LET user == FindByEmail(coll, email) IN
  IF user # 0 /\ MatchPassword(coll[user], password)
    THEN [status |-> 200, msg |-> "", uid |-> user, token |-> user]
    ELSE [status |-> 401, msg |-> "Invalid Email or Password", uid |-> 0, token |-> 0]

RespondUser(op, tok, id, email, status, msg, token) ==
  [Respond(op, tok, id, status, msg) EXCEPT !.email = email, !.token = token]

Login(email, password) ==
  /\ LET r == LoginResult(users, email, password) IN
       last' = RespondUser("login", 0, r.uid, email, r.status, r.msg, r.token)
  /\ UNCHANGED <<products, users, orders, inflight, now, notifications>>

NewUserAsAdmin(name, email, password) ==
  [BlankUser EXCEPT !.state = "live", !.name = name, !.email = email,
                    !.password = Hash(password), !.isAdmin = TRUE]
\* User.create({ name, email, password })
NewUser(name, email, password) ==
  [BlankUser EXCEPT !.state = "live", !.name = name, !.email = email,
                    !.password = Hash(password)]

RegisterNoCheck(name, email, password) ==
  /\ IF ~EmailUnique(users, 0, email)
       THEN /\ last' = RespondUser("register", 0, 0, email, 500, "duplicate key", 0)
            /\ UNCHANGED users
     ELSE /\ Fresh(users) # {}
          /\ users' = [users EXCEPT ![NextId(users)] = NewUser(name, email, password)]
          /\ last' = RespondUser("register", 0, NextId(users), email, 201, "", NextId(users))
  /\ UNCHANGED <<products, orders, inflight, now, notifications>>

\* POST / (register)
Register(name, email, password) ==
  /\ IF FindByEmail(users, email) # 0
       THEN /\ last' = RespondUser("register", 0, 0, email, 400, "User already exists", 0)
            /\ UNCHANGED users
     ELSE IF ~EmailUnique(users, 0, email)
       THEN /\ last' = RespondUser("register", 0, 0, email, 500, "duplicate key", 0)
            /\ UNCHANGED users
     ELSE /\ Fresh(users) # {}
          /\ users' = [users EXCEPT ![NextId(users)] = NewUser(name, email, password)]
          /\ last' = RespondUser("register", 0, NextId(users), email, 201, "", NextId(users))
  /\ UNCHANGED <<products, orders, inflight, now, notifications>>

\* POST / (register) on a request body: const { name, email, password } = req.body
RegisterBody(body) == Register(body.name, body.email, body.password)

\* user.save() of a changed document: refused when the email is taken
SaveUser(op, tok, id, doc) ==
  IF ~EmailUnique(users, id, doc.email)
    THEN /\ last' = RespondUser(op, tok, id, doc.email, 500, "duplicate key", 0)
         /\ UNCHANGED users
    ELSE /\ users' = [users EXCEPT ![id] = doc]
         /\ last' = RespondUser(op, tok, id, doc.email, 200, "", IF op = "profileUpdate" THEN id ELSE 0)

ProfileUpdateRehash(tok, name, email, password) ==
  /\ IF Gate(tok, FALSE) # 0
       THEN /\ last' = Respond("profileUpdate", tok, 0, 401, GateMsg(401))
            /\ UNCHANGED users
     ELSE SaveUser("profileUpdate", tok, Protect(tok),
            [users[Protect(tok)] EXCEPT
               !.name = OrStr(name, @),
               !.email = OrStr(email, @),
               !.password = IF FalsyStr(password) THEN Hash(@) ELSE Hash(password)])
  /\ UNCHANGED <<products, orders, inflight, now, notifications>>

\* PUT /profile (protect)
ProfileUpdate(tok, name, email, password) ==
  /\ IF Gate(tok, FALSE) # 0
       THEN /\ last' = Respond("profileUpdate", tok, 0, 401, GateMsg(401))
            /\ UNCHANGED users
     ELSE SaveUser("profileUpdate", tok, Protect(tok),
            [users[Protect(tok)] EXCEPT
               !.name = OrStr(name, @),
               !.email = OrStr(email, @),
               !.password = IF FalsyStr(password) THEN @ ELSE Hash(password)])
  /\ UNCHANGED <<products, orders, inflight, now, notifications>>

\* PUT /users/:id (no gate)
UserUpdate(id, name, email, password) ==
  /\ IF users[id].state # "live"
       THEN /\ last' = Respond("userUpdate", 0, id, 404, "User not found")
            /\ UNCHANGED users
     ELSE SaveUser("userUpdate", 0, id,
            [users[id] EXCEPT
               !.name = OrStr(name, @),
               !.email = OrStr(email, @),
               !.password = IF FalsyStr(password) THEN @ ELSE Hash(password)])
  /\ UNCHANGED <<products, orders, inflight, now, notifications>>

\* User.findOne({ emailResetToken: token }): the id found, or 0
FindByEmailResetToken(token) ==
  IF \E i \in Live(users) : users[i].emailResetToken = token
    THEN CHOOSE i \in Live(users) : users[i].emailResetToken = token
    ELSE 0

\* PUT /reset-email/:token (no gate)
ResetEmail(token, email) ==
  /\ IF FindByEmailResetToken(token) = 0
       THEN /\ last' = RespondUser("resetEmail", 0, 0, email, 400, "Invalid or expired token", 0)
            /\ UNCHANGED users
     ELSE SaveUser("resetEmail", 0, FindByEmailResetToken(token),
            [users[FindByEmailResetToken(token)] EXCEPT
               !.email = email, !.emailResetToken = "", !.emailResetExpires = 0])
  /\ UNCHANGED <<products, orders, inflight, now, notifications>>

----------------------------------------------------------------------------
(* Password reset *)

PwTokens == {"r1", "r2"}  \* values generatePasswordResetToken may draw
ResetLife == 1            \* clock ticks a password-reset token stays valid
MaxResetTime == 2         \* the clock of the password-reset runs goes up to this

\* a response to a password-reset request; it records the token of the path
RespondReset(op, id, resetToken, status, msg) ==
  [op |-> op, tok |-> 0, id |-> id, status |-> status, msg |-> msg, token |-> 0,
   email |-> "", product |-> 0, quantity |-> 0, resetToken |-> resetToken]

\* UserModel: generatePasswordResetToken stores a token and its expiry
GeneratePasswordResetToken(user, t) ==
  [user EXCEPT !.passwordResetToken = t, !.passwordResetExpires = now + ResetLife]

\* POST /reset-password (no gate); t is the random token drawn
ResetPasswordRequest(email, t) ==
  /\ IF FindByEmail(users, email) = 0
       THEN /\ last' = RespondReset("resetRequest", 0, "", 404, "User not found")
            /\ UNCHANGED users
     ELSE /\ \A i \in Live(users) : users[i].passwordResetToken # t
          /\ users' = [users EXCEPT ![FindByEmail(users, email)] =
                 GeneratePasswordResetToken(@, t)]
          /\ last' = RespondReset("resetRequest", FindByEmail(users, email), "", 200,
                                  "Password reset email sent")
  /\ UNCHANGED <<products, orders, inflight, now, notifications>>

\* User.findOne({ passwordResetToken: token }): the id found, or 0
FindByPasswordResetToken(token) ==
  IF \E i \in Live(users) : users[i].passwordResetToken = token
    THEN CHOOSE i \in Live(users) : users[i].passwordResetToken = token
    ELSE 0

ResetPasswordKeepsToken(token, password) ==
  /\ IF FindByPasswordResetToken(token) = 0
       THEN /\ last' = RespondReset("resetPassword", 0, token, 400, "Invalid or expired token")
            /\ UNCHANGED users
     ELSE /\ users' = [users EXCEPT ![FindByPasswordResetToken(token)] =
                 [@ EXCEPT !.password = Hash(password)]]
          /\ last' = RespondReset("resetPassword", FindByPasswordResetToken(token), token,
                                  200, "Password reset successful")
  /\ UNCHANGED <<products, orders, inflight, now, notifications>>

\* PUT /reset-password/:token (no gate)
ResetPassword(token, password) ==
  /\ IF FindByPasswordResetToken(token) = 0
       THEN /\ last' = RespondReset("resetPassword", 0, token, 400, "Invalid or expired token")
            /\ UNCHANGED users
     ELSE /\ users' = [users EXCEPT ![FindByPasswordResetToken(token)] =
                 [@ EXCEPT !.password = Hash(password),
                           !.passwordResetToken = "", !.passwordResetExpires = 0]]
          /\ last' = RespondReset("resetPassword", FindByPasswordResetToken(token), token,
                                  200, "Password reset successful")
  /\ UNCHANGED <<products, orders, inflight, now, notifications>>

\* time passes between password-reset requests
ResetTick ==
  /\ now < MaxResetTime
  /\ now' = now + 1
  /\ last' = Respond("tick", 0, 0, 0, "")
  /\ UNCHANGED <<products, users, orders, inflight, notifications>>

----------------------------------------------------------------------------
(* Notification routes.  A write to the store may fail; the handler then    *)
(* ends with the error and the shared error boundary answers 500.          *)

NIds == {1, 2}            \* ids the store hands to notifications, in creation order
Titles == {"t1", "t2"}

BlankNotification == [state |-> "none", title |-> "", user |-> 0]

\* POST /users/:id/notifications (no gate); saved1 and saved2 tell whether
\* notification.save() and user.save() succeed
NotificationSend(id, title, saved1, saved2) ==
  /\ IF users[id].state # "live"
       THEN /\ last' = Respond("notificationSend", 0, id, 404, "User not found")
            /\ UNCHANGED <<users, notifications>>
     ELSE IF ~saved1
       THEN /\ last' = Respond("notificationSend", 0, id, 500, "save failed")
            /\ UNCHANGED <<users, notifications>>
     ELSE /\ Fresh(notifications) # {}
          /\ notifications' = [notifications EXCEPT ![NextId(notifications)] =
                 [state |-> "live", title |-> title, user |-> id]]
          /\ IF ~saved2
               THEN /\ last' = Respond("notificationSend", 0, id, 500, "save failed")
                    /\ UNCHANGED users
               ELSE /\ users' = [users EXCEPT ![id].notifications =
                           Append(@, NextId(notifications))]
                    /\ last' = Respond("notificationSend", 0, id, 201, "")
  /\ UNCHANGED <<products, orders, inflight, now>>

\* DELETE /users/:id/notifications/:notificationId (no gate); saved tells
\* whether user.save() succeeds
NotificationDelete(id, notificationId, saved) ==
  /\ IF users[id].state # "live"
       THEN /\ last' = Respond("notificationDelete", 0, id, 404, "User not found")
            /\ UNCHANGED users
     ELSE IF \A i \in 1..Len(users[id].notifications) :
               users[id].notifications[i] # notificationId
       THEN /\ last' = Respond("notificationDelete", 0, id, 404, "Notification not found")
            /\ UNCHANGED users
     ELSE IF ~saved
       THEN /\ last' = Respond("notificationDelete", 0, id, 500, "save failed")
            /\ UNCHANGED users
     ELSE /\ users' = [users EXCEPT ![id].notifications =
                 SelectSeq(@, LAMBDA x : x # notificationId)]
          /\ last' = Respond("notificationDelete", 0, id, 200,
                              "Notification deleted successfully")
  /\ UNCHANGED <<products, orders, inflight, now, notifications>>

----------------------------------------------------------------------------
(* Cart routes.  A product id arrives in a request as a string; the cart   *)
(* stores it as an object id.  Casting a 24-digit hex string to an object  *)
(* id accepts either letter case, and toString() of an object id gives the *)
(* lower-case digits, so two strings name each product id.                 *)

CartPids == {1, 2}
IdStrings == [id : CartPids, lower : BOOLEAN]

\* the object id a request string is cast to when it is stored
CastObjectId(s) == s.id
\* objectId.toString()
ToHexString(id) == [id |-> id, lower |-> TRUE]

MaxCartLen == 3           \* entries a cart may grow to
MaxCartQty == 4           \* quantity an entry may grow to
Quantities == 1..MaxQty

\* index of the first entry that satisfies item.product.toString() === productId
\* (and item.product == productId, which compares the same two strings); 0 if none
CartFind(cart, productId) ==
  IF \E i \in 1..Len(cart) : ToHexString(cart[i].product) = productId
    THEN CHOOSE i \in 1..Len(cart) :
           /\ ToHexString(cart[i].product) = productId
           /\ \A j \in 1..(i - 1) : ToHexString(cart[j].product) # productId
    ELSE 0

\* a cart response; it records the product the request named and the quantity
RespondCart(op, id, productId, quantity, status, msg) ==
  [Respond(op, 0, id, status, msg) EXCEPT
     !.product = CastObjectId(productId), !.quantity = quantity]

\* POST /users/:id/cart (no gate)
CartAdd(id, productId, quantity) ==
  /\ IF users[id].state # "live"
       THEN /\ last' = RespondCart("cartAdd", id, productId, quantity, 404, "User not found")
            /\ UNCHANGED users
     ELSE LET cart == users[id].cart
              i == CartFind(cart, productId)
          IN /\ IF i # 0
                  THEN /\ cart[i].quantity + quantity <= MaxCartQty
                       /\ users' = [users EXCEPT ![id].cart[i].quantity = @ + quantity]
                  ELSE /\ Len(cart) < MaxCartLen
                       /\ users' = [users EXCEPT ![id].cart =
                             Append(@, [product |-> CastObjectId(productId),
                                        quantity |-> quantity])]
             /\ last' = RespondCart("cartAdd", id, productId, quantity, 200,
                                    "Product added to cart")
  /\ UNCHANGED <<products, orders, inflight, now, notifications>>

\* PUT /users/:id/cart/:product_id (no gate)
CartUpdate(id, productId, quantity) ==
  /\ IF users[id].state # "live"
       THEN /\ last' = RespondCart("cartUpdate", id, productId, quantity, 404, "User not found")
            /\ UNCHANGED users
     ELSE IF CartFind(users[id].cart, productId) = 0
       THEN /\ last' = RespondCart("cartUpdate", id, productId, quantity, 404,
                                   "Product not found in cart")
            /\ UNCHANGED users
     ELSE /\ users' = [users EXCEPT
                 ![id].cart[CartFind(users[id].cart, productId)].quantity = quantity]
          /\ last' = RespondCart("cartUpdate", id, productId, quantity, 200,
                                 "Cart updated successfully")
  /\ UNCHANGED <<products, orders, inflight, now, notifications>>

\* user.favorites.indexOf(productId): the index of the product, 0 if none
FavoriteIndex(favorites, productId) ==
  IF \E i \in 1..Len(favorites) : favorites[i] = productId
    THEN CHOOSE i \in 1..Len(favorites) :
           favorites[i] = productId /\ \A j \in 1..(i - 1) : favorites[j] # productId
    ELSE 0

\* DELETE /users/:id/favorites/:product_id (no gate)
FavoriteRemove(id, productId) ==
  /\ IF users[id].state # "live"
       THEN /\ last' = Respond("favoriteRemove", 0, id, 404, "User not found")
            /\ UNCHANGED users
     ELSE /\ users' = [users EXCEPT ![id].favorites =
                 IF FavoriteIndex(@, productId) # 0
                   THEN SubSeq(@, 1, FavoriteIndex(@, productId) - 1)
                          \o SubSeq(@, FavoriteIndex(@, productId) + 1, Len(@))
                   ELSE @]
          /\ last' = Respond("favoriteRemove", 0, id, 200, "Product removed from favorites")
  /\ UNCHANGED <<products, orders, inflight, now, notifications>>

----------------------------------------------------------------------------
(* Register as two steps, so that requests may overlap: the look-up by     *)
(* email, then User.create on the outcome of that look-up.                 *)

\* the request up to and including await User.findOne({ email })
RegisterBegin(r, name, email, password) ==
  /\ inflight[r].pc = "idle"
  /\ IF FindByEmail(users, email) # 0
       THEN /\ inflight' = [inflight EXCEPT ![r] =
                  [pc |-> "registerDone", name |-> name, email |-> email,
                   password |-> password, status |-> 400, uid |-> 0]]
            /\ last' = RespondUser("register", 0, 0, email, 400, "User already exists", 0)
       ELSE /\ inflight' = [inflight EXCEPT ![r] =
                  [pc |-> "registerRead", name |-> name, email |-> email,
                   password |-> password, status |-> 0, uid |-> 0]]
            /\ last' = RespondUser("registerRead", 0, 0, email, 0, "", 0)
  /\ UNCHANGED <<products, users, orders, now, notifications>>

RegisterFinishUnindexed(r) ==
  /\ inflight[r].pc = "registerRead"
  /\ Fresh(users) # {}
  /\ users' = [users EXCEPT ![NextId(users)] =
        NewUser(inflight[r].name, inflight[r].email, inflight[r].password)]
  /\ inflight' = [inflight EXCEPT ![r].pc = "registerDone", ![r].status = 201,
                                  ![r].uid = NextId(users)]
  /\ last' = RespondUser("register", 0, NextId(users), inflight[r].email, 201, "",
                         NextId(users))
  /\ UNCHANGED <<products, orders, now, notifications>>

\* the rest of the handler: User.create, which the unique index on email
\* refuses when a user with that email was stored in the meantime
RegisterFinish(r) ==
  /\ inflight[r].pc = "registerRead"
  /\ IF ~EmailUnique(users, 0, inflight[r].email)
       THEN /\ inflight' = [inflight EXCEPT ![r].pc = "registerDone", ![r].status = 500]
            /\ last' = RespondUser("register", 0, 0, inflight[r].email, 500,
                                   "duplicate key", 0)
            /\ UNCHANGED users
     ELSE /\ Fresh(users) # {}
          /\ users' = [users EXCEPT ![NextId(users)] =
                NewUser(inflight[r].name, inflight[r].email, inflight[r].password)]
          /\ inflight' = [inflight EXCEPT ![r].pc = "registerDone", ![r].status = 201,
                                          ![r].uid = NextId(users)]
          /\ last' = RespondUser("register", 0, NextId(users), inflight[r].email, 201, "",
                                 NextId(users))
  /\ UNCHANGED <<products, orders, now, notifications>>

----------------------------------------------------------------------------
(* Cart-add as two steps, for requests that overlap: everything up to      *)
(* `await User.findById` is the first step, the rest (the look-up in the   *)
(* cart read, the change and `await user.save()`) is the second.           *)

\* What save() writes for a user document whose cart was changed.  A pushed
\* entry is sent as an atomic append ("delta"), which also advances the
\* document's version; a changed quantity is sent as a set of that entry's
\* quantity, on the condition that the version is the one read, and the save
\* fails when it is not.  In these runs only pushes to the cart advance the
\* version, so the version is the length of the stored cart.  A store that
\* writes the document back whole replaces the cart ("replace").
SaveCartPush(stored, doc, entry, mode) ==
  IF mode = "delta"
    THEN [stored EXCEPT !.cart = Append(@, entry)]
    ELSE [stored EXCEPT !.cart = Append(doc.cart, entry)]

VersionMatches(stored, doc, mode) == mode = "delta" => Len(stored.cart) = Len(doc.cart)

SaveCartQuantity(stored, doc, i, quantity, mode) ==
  IF mode = "delta"
    THEN [stored EXCEPT !.cart[i].quantity = quantity]
    ELSE [stored EXCEPT !.cart = [doc.cart EXCEPT ![i].quantity = quantity]]

\* const user = await User.findById(id)
CartBegin(r, id, productId, quantity) ==
  /\ inflight[r].pc = "idle"
  /\ IF users[id].state # "live"
       THEN /\ inflight' = [inflight EXCEPT ![r] =
                  [pc |-> "cartDone", id |-> id, productId |-> productId,
                   quantity |-> quantity, doc |-> BlankUser, status |-> 404]]
            /\ last' = RespondCart("cartAdd", id, productId, quantity, 404, "User not found")
       ELSE /\ inflight' = [inflight EXCEPT ![r] =
                  [pc |-> "cartRead", id |-> id, productId |-> productId,
                   quantity |-> quantity, doc |-> users[id], status |-> 0]]
            /\ last' = RespondCart("cartRead", id, productId, quantity, 0, "")
  /\ UNCHANGED <<products, users, orders, now, notifications>>

\* the rest of the handler, on the document read in CartBegin
CartFinish(r, mode) ==
  /\ inflight[r].pc = "cartRead"
  /\ LET q == inflight[r]
         i == CartFind(q.doc.cart, q.productId)
     IN IF i # 0
          THEN /\ q.doc.cart[i].quantity + q.quantity <= MaxCartQty
               /\ IF VersionMatches(users[q.id], q.doc, mode)
                    THEN /\ users' = [users EXCEPT ![q.id] =
                                SaveCartQuantity(@, q.doc, i,
                                                 q.doc.cart[i].quantity + q.quantity, mode)]
                         /\ inflight' = [inflight EXCEPT ![r].pc = "cartDone",
                                                         ![r].status = 200]
                         /\ last' = RespondCart("cartAdd", q.id, q.productId, q.quantity,
                                                200, "Product added to cart")
                    ELSE /\ inflight' = [inflight EXCEPT ![r].pc = "cartDone",
                                                         ![r].status = 500]
                         /\ last' = RespondCart("cartAdd", q.id, q.productId, q.quantity,
                                                500, "No matching document found")
                         /\ UNCHANGED users
          ELSE /\ Len(users[q.id].cart) < MaxCartLen
               /\ users' = [users EXCEPT ![q.id] =
                      SaveCartPush(@, q.doc, [product |-> CastObjectId(q.productId),
                                              quantity |-> q.quantity], mode)]
               /\ inflight' = [inflight EXCEPT ![r].pc = "cartDone", ![r].status = 200]
               /\ last' = RespondCart("cartAdd", q.id, q.productId, q.quantity,
                                      200, "Product added to cart")
  /\ UNCHANGED <<products, orders, now, notifications>>

----------------------------------------------------------------------------
(* Order routes *)

NoTime == -1              \* a timestamp field that is not set (undefined)

BlankOrder ==
  [state |-> "none", user |-> 0, orderItems |-> <<>>,
   isPaid |-> FALSE, paidAt |-> NoTime, paymentResult |-> "",
   isDelivered |-> FALSE, deliveredAt |-> NoTime,
   isCancelled |-> FALSE, cancelledAt |-> NoTime, status |-> ""]

\* orderItems of a request body: absent (has = FALSE) or a list
BodyItems ==
  { [has |-> FALSE, items |-> <<>>], [has |-> TRUE, items |-> <<>>],
    [has |-> TRUE, items |-> <<1>>] }

\* orderItems && orderItems.length === 0
NoOrderItems(body) == body.has /\ Len(body.items) = 0

\* OrderModel: orderItems is a list path; a document built without it holds
\* the empty list.
OrderItemsStored(body) == IF body.has THEN body.items ELSE <<>>

NewOrderFromBody(uid, body) ==
  [BlankOrder EXCEPT !.state = "live", !.user = body.user, !.orderItems = OrderItemsStored(body)]
\* new Order({ orderItems, user: req.user._id, ... })
NewOrder(uid, body) ==
  [BlankOrder EXCEPT !.state = "live", !.user = uid, !.orderItems = OrderItemsStored(body)]

\* POST / (protect)
OrderCreate(tok, body) ==
  /\ IF Gate(tok, FALSE) # 0
       THEN /\ last' = Respond("orderCreate", tok, 0, 401, GateMsg(401))
            /\ UNCHANGED orders
     ELSE IF NoOrderItems(body)
       THEN /\ last' = Respond("orderCreate", tok, 0, 400, "No order items")
            /\ UNCHANGED orders
     ELSE /\ Fresh(orders) # {}
          /\ orders' = [orders EXCEPT ![NextId(orders)] = NewOrder(Protect(tok), body)]
          /\ last' = Respond("orderCreate", tok, NextId(orders), 201, "")
  /\ UNCHANGED <<products, users, inflight, now, notifications>>

\* POST /order (protect)
OrderCreate2(tok, body) ==
  /\ IF Gate(tok, FALSE) # 0
       THEN /\ last' = Respond("orderCreate2", tok, 0, 401, GateMsg(401))
            /\ UNCHANGED orders
     ELSE IF NoOrderItems(body)
       THEN /\ last' = Respond("orderCreate2", tok, 0, 400, "No order items")
            /\ UNCHANGED orders
     ELSE /\ Fresh(orders) # {}
          /\ orders' = [orders EXCEPT ![NextId(orders)] = NewOrder(Protect(tok), body)]
          /\ last' = Respond("orderCreate2", tok, NextId(orders), 201, "")
  /\ UNCHANGED <<products, users, inflight, now, notifications>>

PayResults == {"pay1", "pay2"}

\* PUT /:id/pay (protect)
OrderPay(tok, id, result) ==
  /\ IF Gate(tok, FALSE) # 0
       THEN /\ last' = Respond("orderPay", tok, id, 401, GateMsg(401))
            /\ UNCHANGED orders
     ELSE IF orders[id].state # "live"
       THEN /\ last' = Respond("orderPay", tok, id, 404, "Order Not Found")
            /\ UNCHANGED orders
     ELSE /\ orders' = [orders EXCEPT ![id].isPaid = TRUE, ![id].paidAt = now,
                                      ![id].paymentResult = result]
          /\ last' = Respond("orderPay", tok, id, 200, "")
  /\ UNCHANGED <<products, users, inflight, now, notifications>>

OrderCancelUnchecked(tok, id) ==
  /\ IF Gate(tok, FALSE) # 0
       THEN /\ last' = Respond("orderCancel", tok, id, 401, GateMsg(401))
            /\ UNCHANGED orders
     ELSE IF orders[id].state # "live"
       THEN /\ last' = Respond("orderCancel", tok, id, 404, "Order not found")
            /\ UNCHANGED orders
     ELSE /\ orders' = [orders EXCEPT ![id].isCancelled = TRUE, ![id].cancelledAt = now]
          /\ last' = Respond("orderCancel", tok, id, 200, "")
  /\ UNCHANGED <<products, users, inflight, now, notifications>>

\* PUT /:id/cancel (protect)
OrderCancel(tok, id) ==
  /\ IF Gate(tok, FALSE) # 0
       THEN /\ last' = Respond("orderCancel", tok, id, 401, GateMsg(401))
            /\ UNCHANGED orders
     ELSE IF orders[id].state # "live"
       THEN /\ last' = Respond("orderCancel", tok, id, 404, "Order not found")
            /\ UNCHANGED orders
     ELSE IF orders[id].isPaid
       THEN /\ last' = Respond("orderCancel", tok, id, 400, "Cannot cancel a paid order")
            /\ UNCHANGED orders
     ELSE /\ orders' = [orders EXCEPT ![id].isCancelled = TRUE, ![id].cancelledAt = now]
          /\ last' = Respond("orderCancel", tok, id, 200, "")
  /\ UNCHANGED <<products, users, inflight, now, notifications>>

\* a response that carries a list of order ids
RespondOrders(op, tok, status, msg, found) ==
  [op |-> op, tok |-> tok, id |-> 0, status |-> status, msg |-> msg, token |-> 0,
   email |-> "", product |-> 0, quantity |-> 0, orders |-> found]

\* GET / (protect): Order.find({ user: req.user._id }).sort({ _id: -1 })
OrderListMine(tok) ==
  /\ IF Gate(tok, FALSE) # 0
       THEN last' = RespondOrders("orderListMine", tok, 401, GateMsg(401), <<>>)
       ELSE last' = RespondOrders("orderListMine", tok, 200, "",
                      DescFrom({o \in Live(orders) : orders[o].user = Protect(tok)},
                               Cardinality(DOMAIN orders)))
  /\ UNCHANGED <<products, users, orders, inflight, now, notifications>>

\* PUT /:id/delivered (protect)
OrderDelivered(tok, id) ==
  /\ IF Gate(tok, FALSE) # 0
       THEN /\ last' = Respond("orderDelivered", tok, id, 401, GateMsg(401))
            /\ UNCHANGED orders
     ELSE IF orders[id].state # "live"
       THEN /\ last' = Respond("orderDelivered", tok, id, 404, "Order Not Found")
            /\ UNCHANGED orders
     ELSE /\ orders' = [orders EXCEPT ![id].isDelivered = TRUE, ![id].deliveredAt = now]
          /\ last' = Respond("orderDelivered", tok, id, 200, "")
  /\ UNCHANGED <<products, users, inflight, now, notifications>>

OrderUnpaidKeepsResult(tok, id) ==
  /\ IF Gate(tok, FALSE) # 0
       THEN /\ last' = Respond("orderUnpaid", tok, id, 401, GateMsg(401))
            /\ UNCHANGED orders
     ELSE IF orders[id].state # "live"
       THEN /\ last' = Respond("orderUnpaid", tok, id, 404, "Order Not Found")
            /\ UNCHANGED orders
     ELSE /\ orders' = [orders EXCEPT ![id].isPaid = FALSE, ![id].paidAt = NoTime,
                                      ![id].status = "Unpaid"]
          /\ last' = Respond("orderUnpaid", tok, id, 200, "")
  /\ UNCHANGED <<products, users, inflight, now, notifications>>

\* PUT /:id/unpaid (protect)
OrderUnpaid(tok, id) ==
  /\ IF Gate(tok, FALSE) # 0
       THEN /\ last' = Respond("orderUnpaid", tok, id, 401, GateMsg(401))
            /\ UNCHANGED orders
     ELSE IF orders[id].state # "live"
       THEN /\ last' = Respond("orderUnpaid", tok, id, 404, "Order Not Found")
            /\ UNCHANGED orders
     ELSE /\ orders' = [orders EXCEPT ![id].isPaid = FALSE, ![id].paidAt = NoTime,
                                      ![id].paymentResult = "", ![id].status = "Unpaid"]
          /\ last' = Respond("orderUnpaid", tok, id, 200, "")
  /\ UNCHANGED <<products, users, inflight, now, notifications>>

\* GET /orders/:id/cancel (no gate)
OrderCancelGet(id) ==
  /\ IF orders[id].state # "live"
       THEN /\ last' = Respond("orderCancelGet", 0, id, 404, "Order not found")
            /\ UNCHANGED orders
     ELSE /\ orders' = [orders EXCEPT ![id].status = "Cancelled"]
          /\ last' = Respond("orderCancelGet", 0, id, 200, "")
  /\ UNCHANGED <<products, users, inflight, now, notifications>>

Statuses == {"Shipped"}

\* PUT /orders/:id/status (no gate)
OrderStatus(id, status) ==
  /\ IF orders[id].state # "live"
       THEN /\ last' = Respond("orderStatus", 0, id, 404, "Order not found")
            /\ UNCHANGED orders
     ELSE /\ orders' = [orders EXCEPT ![id].status = status]
          /\ last' = Respond("orderStatus", 0, id, 200, "")
  /\ UNCHANGED <<products, users, inflight, now, notifications>>

\* PUT /orders/:id (no gate)
OrderUpdate(id, status) ==
  /\ IF orders[id].state # "live"
       THEN /\ last' = Respond("orderUpdate", 0, id, 404, "Order not found")
            /\ UNCHANGED orders
     ELSE /\ orders' = [orders EXCEPT ![id].status = OrStr(status, @)]
          /\ last' = Respond("orderUpdate", 0, id, 200, "")
  /\ UNCHANGED <<products, users, inflight, now, notifications>>

\* DELETE /orders/:id (no gate)
OrderDelete(id) ==
  /\ IF orders[id].state # "live"
       THEN /\ last' = Respond("orderDelete", 0, id, 404, "Order not found")
            /\ UNCHANGED orders
     ELSE /\ orders' = [orders EXCEPT ![id] = [BlankOrder EXCEPT !.state = "gone"]]
          /\ last' = Respond("orderDelete", 0, id, 200, "Order deleted successfully")
  /\ UNCHANGED <<products, users, inflight, now, notifications>>

\* The user id of a request path is a string; two strings name each user id
\* (see the cart routes).
UserIdStrings == [id : UIds, lower : BOOLEAN]

\* a response of an order route under the user path; it records the path
RespondUserOrder(op, userId, orderId, status, msg) ==
  [op |-> op, tok |-> 0, id |-> orderId, status |-> status, msg |-> msg, token |-> 0,
   email |-> "", product |-> 0, quantity |-> 0, userId |-> userId]

UserOrderDeleteThenRefuse(userId, orderId) ==
  /\ IF users[CastObjectId(userId)].state # "live"
       THEN /\ last' = RespondUserOrder("userOrderDelete", userId, orderId, 404, "User not found")
            /\ UNCHANGED orders
     ELSE IF orders[orderId].state # "live"
       THEN /\ last' = RespondUserOrder("userOrderDelete", userId, orderId, 404, "Order not found")
            /\ UNCHANGED orders
     ELSE /\ orders' = [orders EXCEPT ![orderId] = [BlankOrder EXCEPT !.state = "gone"]]
          /\ last' = IF ToHexString(orders[orderId].user) # userId
                       THEN RespondUserOrder("userOrderDelete", userId, orderId, 403,
                                             "Unauthorized access to order")
                       ELSE RespondUserOrder("userOrderDelete", userId, orderId, 200,
                                             "Order deleted successfully")
  /\ UNCHANGED <<products, users, inflight, now, notifications>>

\* DELETE /users/:id/orders/:orderId (no gate).  No route adds to the
\* user's orders list, so pulling the order id from it leaves the user
\* document as it was.
UserOrderDelete(userId, orderId) ==
  /\ IF users[CastObjectId(userId)].state # "live"
       THEN /\ last' = RespondUserOrder("userOrderDelete", userId, orderId, 404, "User not found")
            /\ UNCHANGED orders
     ELSE IF orders[orderId].state # "live"
       THEN /\ last' = RespondUserOrder("userOrderDelete", userId, orderId, 404, "Order not found")
            /\ UNCHANGED orders
     ELSE IF ToHexString(orders[orderId].user) # userId
       THEN /\ last' = RespondUserOrder("userOrderDelete", userId, orderId, 403,
                                        "Unauthorized access to order")
            /\ UNCHANGED orders
     ELSE /\ orders' = [orders EXCEPT ![orderId] = [BlankOrder EXCEPT !.state = "gone"]]
          /\ last' = RespondUserOrder("userOrderDelete", userId, orderId, 200,
                                      "Order deleted successfully")
  /\ UNCHANGED <<products, users, inflight, now, notifications>>

\* time passes between requests
Tick ==
  /\ now < MaxTime
  /\ now' = now + 1
  /\ last' = Respond("tick", 0, 0, 0, "")
  /\ UNCHANGED <<products, users, orders, inflight, notifications>>

----------------------------------------------------------------------------
(* Initial state: empty product and order collections; the user collection *)
(* holds the seeded administrator and one seeded customer, who has an      *)
(* email reset pending.                                                    *)

ResetTokens == {"t1", "t2"}

SeedUsers ==
  [i \in UIds |->
     IF i = 1 THEN [BlankUser EXCEPT !.state = "live", !.name = "n1",
                      !.email = "a@x.com", !.password = Hash("p"), !.isAdmin = TRUE]
     ELSE IF i = 2 THEN [BlankUser EXCEPT !.state = "live", !.name = "n2",
                      !.email = "b@x.com", !.password = Hash("p"),
                      !.emailResetToken = "t1", !.emailResetExpires = 1]
     ELSE BlankUser]

Init ==
  /\ products = [i \in PIds |-> BlankProduct]
  /\ users = SeedUsers
  /\ orders = [i \in OIds |-> BlankOrder]
  /\ last = Respond("none", 0, 0, 0, "")
  /\ inflight = [r \in RIds |-> IdleReq]
  /\ now = 0
  /\ notifications = [i \in NIds |-> BlankNotification]

\* Body values of product create and update requests
BodyNames == Names \cup {UndefStr}
BodyPrices == {UndefNum, 0, 10}

\* Product requests carry no token, the administrator's or the customer's
ProductTokens == {NoToken, 1, 2}

NextProduct ==
  \/ \E tok \in ProductTokens, id \in PIds, r \in Ratings : ReviewAdd(tok, id, r)
  \/ \E tok \in ProductTokens, n \in Names : ProductCreate(tok, n, 10, "d", "i", 5)
  \/ \E tok \in ProductTokens, id \in PIds, n \in BodyNames, p \in BodyPrices :
        ProductUpdate(tok, id, n, p, UndefStr, UndefStr, UndefNum)
  \/ \E tok \in ProductTokens, id \in PIds : ProductDelete(tok, id)

SpecProduct == Init /\ [][NextProduct]_vars

\* Overlapping review-adds
NextRace ==
  \/ \E tok \in ProductTokens, n \in Names : ProductCreate(tok, n, 10, "d", "i", 5)
  \/ \E r \in RIds, tok \in ProductTokens, id \in PIds, x \in Ratings : ReviewBegin(r, tok, id, x)
  \/ \E r \in RIds, mode \in SaveModes : ReviewFinish(r, mode)

SpecRace == Init /\ [][NextRace]_vars

\* Body values of account requests
BodyEmails == Emails \cup {UndefStr}
BodyPasswords == {UndefStr, "q"}

NextUser ==
  \/ \E e \in Emails, p \in Passwords : Login(e, p)
  \/ \E e \in Emails, p \in Passwords : Register("n1", e, p)
  \/ \E tok \in Tokens, e \in BodyEmails, p \in BodyPasswords : ProfileUpdate(tok, UndefStr, e, p)
  \/ \E id \in UIds, e \in BodyEmails, p \in BodyPasswords : UserUpdate(id, "n2", e, p)
  \/ \E t \in ResetTokens, e \in Emails : ResetEmail(t, e)

SpecUser == Init /\ [][NextUser]_vars

\* Cart requests name the seeded customer or a user id that is not stored
CartUsers == {2, 3}

NextCart ==
  \/ \E id \in CartUsers, s \in IdStrings, q \in Quantities : CartAdd(id, s, q)
  \/ \E id \in CartUsers, s \in IdStrings, q \in Quantities : CartUpdate(id, s, q)

SpecCart == Init /\ [][NextCart]_vars

\* Order requests carry no token, the administrator's or the customer's
OrderTokens == {NoToken, 1, 2}

NextOrder ==
  \/ \E tok \in OrderTokens, b \in BodyItems : OrderCreate(tok, b)
  \/ \E tok \in OrderTokens, b \in BodyItems : OrderCreate2(tok, b)
  \/ \E tok \in OrderTokens, id \in OIds, r \in PayResults : OrderPay(tok, id, r)
  \/ \E tok \in OrderTokens, id \in OIds : OrderCancel(tok, id)
  \/ Tick

SpecOrder == Init /\ [][NextOrder]_vars

\* Password reset: requests, completions and the clock
NextReset ==
  \/ \E e \in Emails, t \in PwTokens : ResetPasswordRequest(e, t)
  \/ \E t \in PwTokens, p \in Passwords : ResetPassword(t, p)
  \/ ResetTick

SpecReset == Init /\ [][NextReset]_vars

\* Product list: the collection holds the products created first up to some
\* number, of which the one in the middle may have been deleted
MaxListed == 25
ListIds == 1..MaxListed
ListNames == <<"Aa", "b", "Ba">>
PageQueries == {UndefStr, "", "0", "abc", "1", "2", "3"}
Keywords == {UndefStr, "", "a", "B", "ab"}

ListedProduct(i, n, h) ==
  IF i = h THEN [BlankProduct EXCEPT !.state = "gone"]
  ELSE IF i <= n THEN NewProduct(ListNames[(i % 3) + 1], 10, "d", "i", 5)
  ELSE BlankProduct

InitList ==
  /\ \E n \in 0..MaxListed : \E h \in {0, n \div 2} :
        products = [i \in ListIds |-> ListedProduct(i, n, h)]
  /\ users = SeedUsers
  /\ orders = [i \in OIds |-> BlankOrder]
  /\ last = Respond("none", 0, 0, 0, "")
  /\ inflight = [r \in RIds |-> IdleReq]
  /\ now = 0
  /\ notifications = [i \in NIds |-> BlankNotification]

NextList == \E pn \in PageQueries, k \in Keywords : ProductList(pn, k)

SpecList == InitList /\ [][NextList]_vars

\* Product update: bodies in which every field is absent, falsy ("" or 0) or
\* a value that differs from the one a product is created with
Fields == {"name", "price", "description", "image", "countInStock"}
AbsentBody ==
  [name |-> UndefStr, price |-> UndefNum, description |-> UndefStr, image |-> UndefStr,
   countInStock |-> UndefNum]
FalsyBody == [name |-> "", price |-> 0, description |-> "", image |-> "", countInStock |-> 0]
TruthyBody == [name |-> "n2", price |-> 20, description |-> "e", image |-> "j", countInStock |-> 7]

\* the fields of a body whose value is present and truthy
Supplied(b) == {f \in Fields : b[f] = TruthyBody[f]}

\* the bodies with none, one, four or five fields supplied, the other fields
\* being all absent or all falsy
UpdateBodies ==
  {[f \in Fields |-> IF f \in F THEN TruthyBody[f] ELSE rest[f]] :
     rest \in {AbsentBody, FalsyBody},
     F \in {G \in SUBSET Fields : Cardinality(G) \in {0, 1, 4, 5}}}

NextUpdate ==
  \/ \E tok \in ProductTokens : Gate(tok, TRUE) = 0 /\ ProductCreate(tok, "n1", 10, "d", "i", 5)
  \/ \E tok \in ProductTokens, id \in PIds, b \in UpdateBodies :
        /\ Gate(tok, TRUE) = 0
        /\ ProductUpdate(tok, id, b.name, b.price, b.description, b.image, b.countInStock)

SpecUpdate == Init /\ [][NextUpdate]_vars

\* Orders deleted under the user path
NextUserOrder ==
  \/ \E tok \in OrderTokens, b \in BodyItems : OrderCreate(tok, b)
  \/ \E tok \in OrderTokens, id \in OIds, r \in PayResults : OrderPay(tok, id, r)
  \/ \E u \in UserIdStrings, o \in OIds : UserOrderDelete(u, o)

SpecUserOrder == Init /\ [][NextUserOrder]_vars

\* Notifications sent to and deleted from users, with writes that may fail
NextNotify ==
  \/ \E id \in UIds, t \in Titles, saved1 \in BOOLEAN, saved2 \in BOOLEAN :
        NotificationSend(id, t, saved1, saved2)
  \/ \E id \in UIds, n \in NIds, saved \in BOOLEAN : NotificationDelete(id, n, saved)

SpecNotify == Init /\ [][NextNotify]_vars

\* Bodies of order creation that carry items and name a user
OwnedBodies == [has : {TRUE}, items : {<<1>>}, user : {0, 1, 2}]

\* The order handlers, at one moment of the clock
NextOrderFlow ==
  \/ \E tok \in OrderTokens, b \in OwnedBodies : OrderCreate(tok, b)
  \/ \E tok \in OrderTokens, b \in OwnedBodies : OrderCreate2(tok, b)
  \/ \E tok \in OrderTokens : OrderListMine(tok)
  \/ \E tok \in OrderTokens, id \in OIds : Gate(tok, FALSE) = 0 /\ OrderPay(tok, id, "pay1")
  \/ \E tok \in OrderTokens, id \in OIds : Gate(tok, FALSE) = 0 /\ OrderDelivered(tok, id)
  \/ \E tok \in OrderTokens, id \in OIds : Gate(tok, FALSE) = 0 /\ OrderUnpaid(tok, id)
  \/ \E tok \in OrderTokens, id \in OIds : Gate(tok, FALSE) = 0 /\ OrderCancel(tok, id)
  \/ \E id \in OIds : OrderCancelGet(id)
  \/ \E id \in OIds, st \in Statuses : OrderStatus(id, st)
  \/ \E id \in OIds, st \in Statuses \cup {UndefStr} : OrderUpdate(id, st)
  \/ \E id \in OIds : OrderDelete(id)

SpecOrderFlow == Init /\ [][NextOrderFlow]_vars

\* Orders paid and delivered, also more than once, while the clock runs
NextRedo ==
  \/ \E tok \in OrderTokens, b \in BodyItems : OrderCreate(tok, b)
  \/ \E tok \in OrderTokens, id \in OIds, r \in PayResults : OrderPay(tok, id, r)
  \/ \E tok \in OrderTokens, id \in OIds : OrderDelivered(tok, id)
  \/ Tick

SpecRedo == Init /\ [][NextRedo]_vars

\* Overlapping writers of one document: two review-adds on a product, or two
\* cart-adds on the seeded customer, whose cart is filled by cart-adds that
\* run before the overlapping ones begin
LostIdStrings == {ToHexString(x) : x \in CartPids}

NextLost ==
  \/ \E tok \in ProductTokens : Gate(tok, TRUE) = 0 /\ ProductCreate(tok, "n1", 10, "d", "i", 5)
  \/ \E r \in RIds, tok \in ProductTokens, id \in PIds, x \in Ratings : ReviewBegin(r, tok, id, x)
  \/ \E r \in RIds, mode \in SaveModes : ReviewFinish(r, mode)
  \/ /\ \A r \in RIds : inflight[r].pc = "idle"
     /\ CartAdd(2, ToHexString(1), 1)
  \/ \E r \in RIds, id \in CartUsers, s \in LostIdStrings, q \in Quantities : CartBegin(r, id, s, q)
  \/ \E r \in RIds, mode \in SaveModes : CartFinish(r, mode)

SpecLost == Init /\ [][NextLost]_vars

\* Bodies of register requests, with an admin flag the handler does not read
RegisterBodies == [name : {"n1"}, email : Emails, password : {"q"}, isAdmin : BOOLEAN]

\* The handlers that write user documents, for the seeded customer and one
\* registered user
NextAccount ==
  \/ \E b \in RegisterBodies : RegisterBody(b)
  \/ \E tok \in {NoToken, 2}, p \in BodyPasswords : ProfileUpdate(tok, "n1", UndefStr, p)
  \/ \E id \in {2, 3} : UserUpdate(id, UndefStr, "c@x.com", UndefStr)
  \/ \E t \in PwTokens : ResetPasswordRequest("b@x.com", t)
  \/ \E t \in PwTokens : ResetPassword(t, "q")
  \/ \E t \in ResetTokens : ResetEmail(t, "c@x.com")
  \/ CartAdd(2, ToHexString(1), MaxQty)
  \/ CartUpdate(2, ToHexString(1), 1)
  \/ NotificationSend(2, "t1", TRUE, TRUE)
  \/ \E n \in NIds : NotificationDelete(2, n, TRUE)
  \/ \E id \in {2, 3} : FavoriteRemove(id, 1)

SpecAccount == Init /\ [][NextAccount]_vars

\* Requests of every route family, by the customer, the administrator and
\* for ids that are not stored, so that each handler also takes its refusals
NextRefusal ==
  \/ \E id \in PIds : ReviewAdd(2, id, 1)
  \/ ProductCreate(1, "n1", 10, "d", "i", 5)
  \/ \E id \in PIds : ProductUpdate(1, id, "n1", UndefNum, UndefStr, UndefStr, UndefNum)
  \/ ProductDelete(1, 2)
  \/ \E e \in {"b@x.com", "c@x.com"} : Register("n1", e, "p")
  \/ \E id \in {2, 3} : UserUpdate(id, UndefStr, UndefStr, UndefStr)
  \/ \E e \in {"b@x.com", "d@x.com"} : ResetPasswordRequest(e, "r1")
  \/ \E t \in PwTokens : ResetPassword(t, "p")
  \/ \E t \in ResetTokens : ResetEmail(t, "b@x.com")
  \/ \E id \in CartUsers : CartAdd(id, ToHexString(1), MaxCartQty)
  \/ \E id \in CartUsers, s \in IdStrings : CartUpdate(id, s, MaxCartQty)
  \/ \E b \in {[has |-> TRUE, items |-> <<>>], [has |-> TRUE, items |-> <<1>>]} :
        OrderCreate(2, b)
  \/ OrderPay(2, 1, "pay1")
  \/ OrderCancel(2, 1)
  \/ \E u \in UserIdStrings : UserOrderDelete(u, 1)
  \/ NotificationSend(2, "t1", TRUE, TRUE)
  \/ \E id \in {2, 3} : NotificationDelete(id, 1, TRUE)

SpecRefusal == Init /\ [][NextRefusal]_vars

\* Overlapping registers on a store that holds the administrator only
InitRegister ==
  /\ products = [i \in PIds |-> BlankProduct]
  /\ users = [i \in UIds |-> IF i = 1 THEN SeedUsers[1] ELSE BlankUser]
  /\ orders = [i \in OIds |-> BlankOrder]
  /\ last = Respond("none", 0, 0, 0, "")
  /\ inflight = [r \in RIds |-> IdleReq]
  /\ now = 0
  /\ notifications = [i \in NIds |-> BlankNotification]

NextRegister ==
  \/ \E r \in RIds, e \in Emails, p \in Passwords : RegisterBegin(r, "n1", e, p)
  \/ \E r \in RIds : RegisterFinish(r)

SpecRegister == InitRegister /\ [][NextRegister]_vars

\* The handlers that set or test a password
NextCredentials ==
  \/ \E e \in Emails, p \in Passwords : Register("n1", e, p)
  \/ \E e \in Emails, t \in PwTokens : ResetPasswordRequest(e, t)
  \/ \E t \in PwTokens, p \in Passwords : ResetPassword(t, p)
  \/ \E tok \in Tokens, e \in BodyEmails, p \in BodyPasswords :
        ProfileUpdate(tok, UndefStr, e, p)
  \/ \E e \in Emails, p \in Passwords : Login(e, p)

SpecCredentials == Init /\ [][NextCredentials]_vars

----------------------------------------------------------------------------
(* Properties *)

LiveToken(tok) == tok \in UIds /\ users[tok].state = "live"
ReviewOwners(product) == {product.reviews[i].user : i \in 1..Len(product.reviews)}

\* C1: a review-add by an authenticated user on a product whose review list
\* already holds a review owned by that user is answered 400 and leaves the
\* product collection (so the product's reviews, rating and numReviews) as
\* it was.
C1_SecondReviewRejected ==
  [][\A p \in PIds :
       (/\ last'.op = "reviewAdd" /\ last'.id = p
        /\ LiveToken(last'.tok)
        /\ products[p].state = "live"
        /\ last'.tok \in ReviewOwners(products[p]))
       => (last'.status = 400 /\ products' = products)]_vars

\* a second review by the same user has just been refused
C1_Witness ==
  /\ last.op = "reviewAdd" /\ last.status = 400
  /\ last.tok \in ReviewOwners(products[last.id])

\* C2: with the product handlers run one at a time, every product that has
\* N >= 1 reviews has numReviews = N and rating * N = the sum of the stored
\* review ratings.
C2_RatingIsMean ==
  \A p \in Live(products) :
    LET N == Len(products[p].reviews) IN
    N >= 1 =>
      /\ products[p].numReviews = N
      /\ products[p].rating.num * N = SumRatings(products[p].reviews) * products[p].rating.den

\* a product with two reviews whose ratings differ, so that the mean is no integer
C2_Witness ==
  \E p \in Live(products) :
    /\ Len(products[p].reviews) = 2
    /\ products[p].reviews[1].rating # products[p].reviews[2].rating
    /\ products[p].rating.den = 2

CartProducts(cart) == {cart[i].product : i \in 1..Len(cart)}
CartEntries(cart, x) == {i \in 1..Len(cart) : cart[i].product = x}

\* C3: a cart holds at most one entry per product, and a cart-add of a
\* product that is already in the cart with quantity k leaves the number of
\* entries unchanged and makes the quantity k + q.
C3_CartMergesById ==
  [][/\ \A u \in Live(users') : \A x \in CartPids :
          Cardinality(CartEntries(users'[u].cart, x)) <= 1
     /\ \A u \in Live(users) :
          (/\ last'.op = "cartAdd" /\ last'.id = u /\ last'.status = 200
           /\ last'.product \in CartProducts(users[u].cart))
          => /\ Len(users'[u].cart) = Len(users[u].cart)
             /\ \A i \in CartEntries(users[u].cart, last'.product) :
                   users'[u].cart[i].quantity = users[u].cart[i].quantity + last'.quantity]_vars

\* C4: every order in the store has at least one line item.
C4_NoEmptyOrder ==
  \A o \in Live(orders) : Len(orders[o].orderItems) >= 1

\* C5: cancel by an authenticated caller on a stored order: when the order
\* is paid the answer is 400 and the order collection is unchanged; when it
\* is not paid the answer is 200, the order's cancelled flag is set and its
\* cancellation timestamp is the time of the request, and nothing else of the
\* collection changes.
C5_CancelOnlyUnpaid ==
  [][\A o \in OIds :
       (/\ last'.op = "orderCancel" /\ last'.id = o
        /\ LiveToken(last'.tok)
        /\ orders[o].state = "live")
       => IF orders[o].isPaid
            THEN last'.status = 400 /\ orders' = orders
            ELSE /\ last'.status = 200
                 /\ orders' = [orders EXCEPT ![o].isCancelled = TRUE, ![o].cancelledAt = now]
                 /\ orders'[o].cancelledAt # NoTime]_vars

\* a cancel of a paid order has just been refused, and another order was
\* cancelled at a later time than the store was started
C5_Witness ==
  /\ last.op = "orderCancel" /\ last.status = 400
  /\ orders[last.id].isPaid /\ ~orders[last.id].isCancelled
  /\ \E o \in Live(orders) : orders[o].isCancelled /\ orders[o].cancelledAt > 0

EmailTaken(e) == \E i \in Live(users) : users[i].email = e

\* C6: register with an email no user has creates exactly one user, with
\* that email, and answers 201 with a token for the new user; register with
\* an email a user has answers 400 "User already exists" and leaves the user
\* collection unchanged.
C6_RegisterOnce ==
  [][last'.op = "register" =>
       IF EmailTaken(last'.email)
         THEN /\ last'.status = 400 /\ last'.msg = "User already exists"
              /\ last'.token = 0
              /\ users' = users
         ELSE /\ last'.status = 201
              /\ last'.token # 0 /\ last'.token = last'.id
              /\ \E i \in UIds :
                   /\ users[i].state # "live" /\ users'[i].state = "live"
                   /\ users'[i].email = last'.email
                   /\ \A j \in UIds \ {i} : users'[j] = users[j]]_vars

\* a registration has been refused for a taken email after one succeeded
C6_Witness ==
  /\ last.op = "register" /\ last.status = 400
  /\ users[3].state = "live"

WithoutUser(u) == [users EXCEPT ![u] = [BlankUser EXCEPT !.state = "gone"]]

\* C7: for a stored user u and a password that is not u's, the login
\* response for u's email is the same in the store as it is and in the store
\* without u (where the email is unknown): status 401, one message, no
\* token. Both registered login handlers are covered.
C7_LoginFailureUniform ==
  \A u \in Live(users) : \A pw \in Passwords :
    ~MatchPassword(users[u], pw) =>
      LET known == LoginResult(users, users[u].email, pw)
          unknown == LoginResult(WithoutUser(u), users[u].email, pw)
      IN /\ known = unknown
         /\ known.status = 401 /\ known.token = 0
         /\ LoginResultDup(users, users[u].email, pw) = known
         /\ LoginResultDup(WithoutUser(u), users[u].email, pw) = known

\* a login with a known email and a wrong password has just failed, and
\* another email is unknown to the store
C7_Witness ==
  /\ last.op = "login" /\ last.status = 401
  /\ EmailTaken(last.email)
  /\ \E e \in Emails : ~EmailTaken(e)

ProductAdminOps == {"productCreate", "productUpdate", "productDelete"}

C9_EmailsUnique ==
  \A i \in Live(users) : \A j \in Live(users) : i # j => users[i].email # users[j].email

\* a profile update that asked for another user's email has just been refused
C9_Witness ==
  /\ last.op = "profileUpdate" /\ last.status = 500
  /\ \E i \in Live(users) : i # last.id /\ users[i].email = last.email

\* C10: each product's review list holds at most one review per user, also
\* when review-add requests overlap.
C10_OneReviewPerUser ==
  \A p \in Live(products) :
    \A i \in 1..Len(products[p].reviews) : \A j \in 1..Len(products[p].reviews) :
      i # j => products[p].reviews[i].user # products[p].reviews[j].user

ResetFields(u) ==
  <<u.password, u.passwordResetToken, u.passwordResetExpires>>

\* C11: a password-reset completion whose token no user holds, or whose
\* token is held by a user whose stored expiry has passed, is answered 400
\* and changes no user's password, reset token or reset expiry.
C11_StaleResetRejected ==
  [][(/\ last'.op = "resetPassword"
      /\ \A u \in Live(users) :
            users[u].passwordResetToken = last'.resetToken
              => users[u].passwordResetExpires < now)
       => /\ last'.status = 400
          /\ \A u \in UIds : ResetFields(users'[u]) = ResetFields(users[u])]_vars

\* the products at or after position k of S in descending order number
\* Cardinality(S) - k + 1; the product at position k has k - 1 products above it
Above(S, x) == Cardinality({y \in S : y > x})

\* the products of page q of a list in descending order
PageSet(sorted, q) ==
  {sorted[j] : j \in (12 * (q - 1) + 1)..(IF 12 * q < Len(sorted) THEN 12 * q ELSE Len(sorted))}

\* C12: with n products matching the keyword and a requested page p >= 1,
\* the list answers page = p, pages = ceil(n / 12) and exactly the products
\* at positions 12(p-1)+1 .. min(12p, n) of the matching set in descending
\* insertion order (none when p > pages), so the pages 1..pages partition
\* the matching set; a missing, empty, zero or non-numeric pageNumber is
\* page 1.  (No list request changes the collection, so the last response
\* is compared with the collection it was computed from.)
C12_ListPaginates ==
  last.op = "productList" =>
    LET M == KeywordFilter(last.keyword)
        n == Cardinality(M)
        p == last.page
        first == 12 * (p - 1) + 1
        upto == IF 12 * p < n THEN 12 * p ELSE n
        ps == last.products
        sorted == SortDesc(M)
    IN /\ last.pageNumber \in {"1", "2", "3"} =>
            p = CHOOSE q \in 1..3 : <<"1", "2", "3">>[q] = last.pageNumber
       /\ last.pageNumber \in {UndefStr, "", "0", "abc"} => p = 1
       /\ 12 * last.pages >= n /\ 12 * (last.pages - 1) < n
       /\ Len(ps) = (IF upto >= first THEN upto - first + 1 ELSE 0)
       /\ \A j \in 1..Len(ps) : ps[j] \in M /\ Above(M, ps[j]) = first + j - 2
       /\ p > last.pages => ps = <<>>
       /\ M = UNION {PageSet(sorted, q) : q \in 1..last.pages}
       /\ \A q1 \in 1..last.pages : \A q2 \in 1..last.pages :
             q1 # q2 => PageSet(sorted, q1) \cap PageSet(sorted, q2) = {}

\* the second and last page of a list filtered by keyword, which is not full
C12_Witness ==
  /\ last.op = "productList" /\ last.keyword = "a"
  /\ last.page = 2 /\ last.pages = 2
  /\ Len(last.products) \in 1..11
  /\ Cardinality(Live(products)) > Cardinality(KeywordFilter("a"))

NameTaken(n) == \E i \in PIds : products[i].state = "live" /\ products[i].name = n

\* C13: a product create by an administrator with the name of a stored
\* product is answered 400 and leaves the product collection unchanged; with
\* a name no stored product has it is answered 201 and adds exactly one
\* product, which has that name.
C13_CreateRejectsDuplicateName ==
  [][\A tok \in ProductTokens : \A n \in Names :
       (Gate(tok, TRUE) = 0 /\ ProductCreate(tok, n, 10, "d", "i", 5))
       => IF NameTaken(n)
            THEN last'.status = 400 /\ products' = products
            ELSE /\ last'.status = 201
                 /\ \E i \in PIds :
                      /\ products[i].state = "none" /\ products'[i].state = "live"
                      /\ products'[i].name = n
                      /\ last'.id = i
                      /\ \A j \in PIds \ {i} : products'[j] = products[j]]_vars

\* a create has just been refused for a taken name while another name was
\* created before
C13_Witness ==
  /\ last.op = "productCreate" /\ last.status = 400
  /\ Cardinality(Live(products)) = 2
  /\ products[1].name # products[2].name

\* C14: a product update by an administrator on a stored product sets each
\* of name, price, description, image and countInStock to the value of the
\* body when that value is present and truthy and keeps the stored value
\* when it is absent, "" or 0, and changes nothing else; on a product that
\* is not stored it is answered 404.
C14_UpdateKeepsOnFalsy ==
  [][\A tok \in ProductTokens : \A id \in PIds :
       (/\ Gate(tok, TRUE) = 0
        /\ last'.op = "productUpdate" /\ last'.tok = tok /\ last'.id = id)
       => \A b \in UpdateBodies :
            ProductUpdate(tok, id, b.name, b.price, b.description, b.image, b.countInStock)
            => IF products[id].state # "live"
                 THEN last'.status = 404 /\ products' = products
                 ELSE /\ last'.status = 200
                      /\ \A f \in Fields :
                           products'[id][f] =
                             IF f \in Supplied(b) THEN b[f] ELSE products[id][f]
                      /\ products' = [products EXCEPT
                           ![id].name = products'[id].name,
                           ![id].price = products'[id].price,
                           ![id].description = products'[id].description,
                           ![id].image = products'[id].image,
                           ![id].countInStock = products'[id].countInStock]]_vars

\* an update has just answered 200 on a product whose name, price, image and
\* stock were changed by updates and whose description is the one it was
\* created with
C14_Witness ==
  /\ last.op = "productUpdate" /\ last.status = 200
  /\ products[last.id].price = 20 /\ products[last.id].countInStock = 7
  /\ products[last.id].name = "n2" /\ products[last.id].description = "d"
  /\ products[last.id].image = "j"

\* C15: a delete-order under the user path, for a stored user and a stored
\* order: when the order's owner is not the path user the answer is 403 and
\* the order and user collections are unchanged; when the owner is the path
\* user the order is not in the order collection afterwards.
C15_UserOrderDeleteByOwner ==
  [][\A o \in OIds :
       (/\ last'.op = "userOrderDelete" /\ last'.id = o
        /\ users[CastObjectId(last'.userId)].state = "live"
        /\ orders[o].state = "live")
       => IF orders[o].user # CastObjectId(last'.userId)
            THEN last'.status = 403 /\ orders' = orders /\ users' = users
            ELSE orders'[o].state # "live"]_vars

\* the number of documents of a collection that a step writes
Written(before, after) == Cardinality({i \in DOMAIN before : after[i] # before[i]})

Mine(u) == {o \in OIds : orders[o].state = "live" /\ orders[o].user = u}

\* C17: an order is created with the authenticated user of the request as
\* its owner, whatever user the body names; no step of an order handler
\* changes the owner of a stored order; and list-mine answers exactly the
\* orders whose owner is the requesting user, the newest first.
C17_OwnerIsAuthenticatedUser ==
  [][/\ \A o \in OIds :
          (/\ last'.op \in {"orderCreate", "orderCreate2"}
           /\ last'.status = 201 /\ last'.id = o)
          => /\ orders[o].state = "none" /\ orders'[o].state = "live"
             /\ LiveToken(last'.tok) /\ orders'[o].user = last'.tok
     /\ \A o \in OIds :
          (orders[o].state = "live" /\ orders'[o].state = "live")
          => orders'[o].user = orders[o].user
     /\ (last'.op = "orderListMine" /\ LiveToken(last'.tok))
          => /\ last'.status = 200
             /\ {last'.orders[i] : i \in 1..Len(last'.orders)} = Mine(last'.tok)
             /\ Len(last'.orders) = Cardinality(Mine(last'.tok))
             /\ \A i \in 1..Len(last'.orders) : \A j \in 1..Len(last'.orders) :
                   i < j => last'.orders[i] > last'.orders[j]]_vars

\* the administrator has just listed the two orders they own, while both
\* exist and were handled by other requests since
C17_Witness ==
  /\ last.op = "orderListMine" /\ last.tok = 1
  /\ last.orders = <<2, 1>>
  /\ orders[1].isPaid /\ orders[2].status = "Shipped"

\* C18: no stored order is both paid and cancelled.
C18_NeverPaidAndCancelled ==
  \A o \in Live(orders) : ~(orders[o].isPaid /\ orders[o].isCancelled)

\* C19: no stored order is delivered without being paid: mark-delivered
\* sets the delivered flag only on an order whose paid flag is set.
C19_DeliveredOnlyFromPaid ==
  [][\A o \in OIds :
       (/\ orders[o].state = "live" /\ orders'[o].state = "live"
        /\ ~orders[o].isDelivered /\ orders'[o].isDelivered)
       => orders[o].isPaid]_vars

\* C20: mark-delivered by an authenticated caller on an order that is
\* already delivered, and mark-paid on an order that is already paid with
\* the payment result it holds, are answered 200 and leave every field of
\* the order, its delivered or paid timestamp included, as it was.
C20_ReapplyIsNoOp ==
  [][\A o \in OIds :
       (/\ last'.id = o /\ LiveToken(last'.tok) /\ orders[o].state = "live"
        /\ \/ last'.op = "orderDelivered" /\ orders[o].isDelivered
           \/ /\ last'.op = "orderPay" /\ orders[o].isPaid
              /\ orders'[o].paymentResult = orders[o].paymentResult)
       => last'.status = 200 /\ orders'[o] = orders[o]]_vars

\* C21: mark-unpaid by an authenticated caller on a stored order clears the
\* paid flag, the paid timestamp and the payment result, sets the status to
\* "Unpaid" and leaves the owner, the items, the delivered flag and
\* timestamp and the cancelled flag and timestamp, and every other order,
\* as they were; on an order that is not stored it is answered 404 and
\* nothing changes.
C21_UnpaidResetsPayment ==
  [][\A o \in OIds :
       (last'.op = "orderUnpaid" /\ last'.id = o /\ LiveToken(last'.tok))
       => IF orders[o].state # "live"
            THEN last'.status = 404 /\ orders' = orders
            ELSE /\ last'.status = 200
                 /\ ~orders'[o].isPaid /\ orders'[o].paidAt = NoTime
                 /\ orders'[o].paymentResult = "" /\ orders'[o].status = "Unpaid"
                 /\ orders'[o].state = "live"
                 /\ orders'[o].user = orders[o].user
                 /\ orders'[o].orderItems = orders[o].orderItems
                 /\ orders'[o].isDelivered = orders[o].isDelivered
                 /\ orders'[o].deliveredAt = orders[o].deliveredAt
                 /\ orders'[o].isCancelled = orders[o].isCancelled
                 /\ orders'[o].cancelledAt = orders[o].cancelledAt
                 /\ \A x \in OIds \ {o} : orders'[x] = orders[x]]_vars

\* an order that was cancelled, paid and delivered has just been marked
\* unpaid, and a request for an order that is not stored was answered 404
\* before
C21_Witness ==
  /\ last.op = "orderUnpaid" /\ last.status = 200
  /\ orders[last.id].isDelivered /\ orders[last.id].isCancelled
  /\ ~orders[last.id].isPaid /\ orders[last.id].status = "Unpaid"
  /\ \E o \in OIds : orders[o].state = "gone"

HoldsResetToken(coll, t) == \E u \in UIds : coll[u].state = "live" /\ coll[u].passwordResetToken = t

\* C22: a password-reset token is used once.  A completion that succeeds
\* with token t clears the user's reset token and expiry, after which no
\* user holds t; a token that no user holds comes to be held only by a
\* reset request; and a completion with a token that no user holds is
\* answered 400 and changes no password.
C22_ResetTokenSingleUse ==
  [][/\ (last'.op = "resetPassword" /\ last'.status = 200)
          => /\ users'[last'.id].passwordResetToken = ""
             /\ users'[last'.id].passwordResetExpires = 0
             /\ ~HoldsResetToken(users', last'.resetToken)
     /\ \A t \in PwTokens :
          (~HoldsResetToken(users, t) /\ HoldsResetToken(users', t))
          => last'.op = "resetRequest"
     /\ (last'.op = "resetPassword" /\ ~HoldsResetToken(users, last'.resetToken))
          => /\ last'.status = 400
             /\ \A u \in UIds : users'[u].password = users[u].password]_vars

\* a completion has just been refused for a token that no user holds, after
\* a completion had set a user's password and cleared that user's token
C22_Witness ==
  /\ last.op = "resetPassword" /\ last.status = 400
  /\ ~HoldsResetToken(users, last.resetToken)
  /\ \E u \in Live(users) :
        users[u].password = Hash("q") /\ users[u].passwordResetToken = ""

\* Both requests are review-adds that have ended, for one stored product,
\* by two different stored users, neither of whom had reviewed the product
\* in the document read, and both read the same document: both read it
\* before either saved.
ReviewsOverlapped ==
  /\ \A r \in RIds : inflight[r].pc = "done" /\ inflight[r].doc.state = "live"
  /\ inflight[1].id = inflight[2].id /\ inflight[1].tok # inflight[2].tok
  /\ inflight[1].doc = inflight[2].doc
  /\ \A r \in RIds : ~AlreadyReviewed(inflight[r].doc, inflight[r].tok)

\* the review-add that saved last is r: the last step is its response
SavedLastReview(r) ==
  /\ last.op = "reviewAdd" /\ last.tok = inflight[r].tok

\* Both requests are cart-adds that have ended, for one stored user, and
\* both read the same document.
CartsOverlapped ==
  /\ \A r \in RIds : inflight[r].pc = "cartDone" /\ inflight[r].doc.state = "live"
  /\ inflight[1].id = inflight[2].id
  /\ inflight[1].doc = inflight[2].doc

SavedLastCart(r) ==
  /\ last.op = "cartAdd" /\ last.product = CastObjectId(inflight[r].productId)
  /\ last.quantity = inflight[r].quantity

\* the cart the request r computed from the document it read
CartOf(r) ==
  LET q == inflight[r]
      i == CartFind(q.doc.cart, q.productId)
  IN IF i # 0 THEN [q.doc.cart EXCEPT ![i].quantity = @ + q.quantity]
     ELSE Append(q.doc.cart, [product |-> CastObjectId(q.productId), quantity |-> q.quantity])

C24_CredentialsChangeAuthorized ==
  [][\A u \in UIds :
       (/\ users[u].state = "live" /\ users'[u].state = "live"
        /\ \/ users'[u].password # users[u].password
           \/ users'[u].email # users[u].email)
       => \/ last'.op = "profileUpdate" /\ last'.tok = u
          \/ /\ last'.op = "resetEmail" /\ last'.id = u
             /\ users[u].emailResetToken \in ResetTokens]_vars

\* C25: no step changes the admin flag of a stored user, and a user that
\* register creates is no administrator, whatever admin flag the body
\* carries.
C25_AdminFlagUntouched ==
  [][\A u \in UIds :
       /\ (users[u].state = "live" /\ users'[u].state = "live")
            => users'[u].isAdmin = users[u].isAdmin
       /\ (users[u].state # "live" /\ users'[u].state = "live")
            => last'.op = "register" /\ ~users'[u].isAdmin]_vars

\* a user has been registered, and the customer has been changed by a profile
\* update, a password reset, an email reset, a cart-add and a notification
C25_Witness ==
  /\ users[3].state = "live" /\ users[3].email = "b@x.com" /\ ~users[3].isAdmin
  /\ users[2].name = "n1" /\ users[2].password = Hash("q")
  /\ users[2].emailResetToken = "" /\ users[2].cart # <<>>
  /\ users[2].notifications # <<>> /\ ~users[2].isAdmin
  /\ users[1].isAdmin

\* C26: no two stored products have the same name, in every state that
\* product creates, updates and deletes run one at a time can reach.
C26_ProductNamesUnique ==
  \A i \in Live(products) : \A j \in Live(products) :
     i # j => products[i].name # products[j].name

RefusalStatuses == {400, 403, 404}

\* C27: a step that is answered 400, 403 or 404 leaves the product, user and
\* order collections as they were before it.
C27_RefusalWritesNothing ==
  [][last'.status \in RefusalStatuses
       => products' = products /\ users' = users /\ orders' = orders]_vars

\* a delete of the customer's order under another user's path has just been
\* answered 403, with a product, a cart and a notification stored
C27_Witness ==
  /\ last.op = "userOrderDelete" /\ last.status = 403
  /\ orders[last.id].state = "live"
  /\ Live(products) # {} /\ users[2].cart # <<>> /\ users[2].notifications # <<>>

\* both requests found no user with their email before either created one
RegistersOverlapped(r1, r2) ==
  /\ inflight[r1].pc = "registerDone" /\ inflight[r2].pc = "registerDone"
  /\ inflight[r1].status # 400 /\ inflight[r2].status # 400

\* C28: when two registers with one email overlap, at most one of them has
\* created a user, and at most one stored user has that email.
C28_OverlappedRegistersCreateOne ==
  \A r1 \in RIds : \A r2 \in RIds \ {r1} :
    (RegistersOverlapped(r1, r2) /\ inflight[r1].email = inflight[r2].email)
    => /\ ~(inflight[r1].status = 201 /\ inflight[r2].status = 201)
       /\ Cardinality({u \in Live(users) : users[u].email = inflight[r1].email}) <= 1

\* two registers with one email have overlapped: one created the user, the
\* other was refused by the store, while a user slot is still free
C28_Witness ==
  /\ RegistersOverlapped(1, 2) /\ inflight[1].email = inflight[2].email
  /\ inflight[1].status = 500 /\ inflight[2].status = 201
  /\ users[inflight[2].uid].email = inflight[1].email
  /\ Fresh(users) # {}

\* in the collection, email and password log in as user u at both registered
\* login handlers, and the email with any other password is answered 401
\* at both
LogsInOnlyWith(coll, u, email, password) ==
  /\ LoginResult(coll, email, password).status = 200
  /\ LoginResult(coll, email, password).uid = u
  /\ LoginResultDup(coll, email, password) = LoginResult(coll, email, password)
  /\ \A q \in Passwords \ {password} :
       /\ LoginResult(coll, email, q).status = 401
       /\ LoginResultDup(coll, email, q).status = 401

\* C29: after a register answered 201 or a password-reset completion
\* answered 200 that set password p for the user with email e, login with e
\* and p succeeds with that user's id and login with e and any other
\* password is answered 401; after a profile update answered 200 that
\* supplied no password, every password that logged the user in before
\* still logs the user in.
C29_CredentialsRoundTrip ==
  [][/\ (last'.op = "register" /\ last'.status = 201)
          => \A e \in Emails : \A p \in Passwords :
               Register("n1", e, p) => LogsInOnlyWith(users', last'.id, e, p)
     /\ (last'.op = "resetPassword" /\ last'.status = 200)
          => \A t \in PwTokens : \A p \in Passwords :
               ResetPassword(t, p)
               => LogsInOnlyWith(users', last'.id, users'[last'.id].email, p)
     /\ (last'.op = "profileUpdate" /\ last'.status = 200)
          => \A tok \in Tokens : \A e \in BodyEmails :
               ProfileUpdate(tok, UndefStr, e, UndefStr)
               => \A p \in Passwords :
                    LoginResult(users, users[last'.id].email, p).status = 200
                    => /\ LoginResult(users', users'[last'.id].email, p).status = 200
                       /\ LoginResult(users', users'[last'.id].email, p).uid = last'.id]_vars

\* a password-reset completion has just set the customer's password, after
\* the customer changed the email by a profile update and a user registered
C29_Witness ==
  /\ last.op = "resetPassword" /\ last.status = 200 /\ last.id = 2
  /\ users[2].email = "c@x.com" /\ users[2].password = Hash("q")
  /\ users[3].state = "live"
  /\ LogsInOnlyWith(users, 2, "c@x.com", "q")

\* index of the first entry of the cart for product x; 0 if none
FirstEntry(cart, x) ==
  IF CartEntries(cart, x) = {} THEN 0
  ELSE CHOOSE i \in CartEntries(cart, x) : \A j \in CartEntries(cart, x) : i <= j

\* C30: a cart quantity update never adds or removes a cart entry; when the
\* user is stored and the product is in the cart it is answered 200, sets
\* the quantity of the product's entry to the supplied value and leaves
\* every other entry unchanged; when the user or the entry is absent it is
\* answered 404 and the user collection is unchanged.
C30_CartUpdateSetsQuantity ==
  [][\A u \in UIds :
       (last'.op = "cartUpdate" /\ last'.id = u)
       => IF users[u].state = "live" /\ last'.product \in CartProducts(users[u].cart)
            THEN /\ last'.status = 200
                 /\ users' = [users EXCEPT
                       ![u].cart[FirstEntry(users[u].cart, last'.product)].quantity =
                          last'.quantity]
            ELSE last'.status = 404 /\ users' = users]_vars

====
